---- MODULE Spec2Model ----
(***************************************************************************)
(* Sunrise Hospital EMR System (src/hospital_EMR_system.py).               *)
(*                                                                         *)
(* A DataFrame is a record [cols, rows]: the set of its column names and   *)
(* the sequence of its rows.  A string that the program takes apart (an    *)
(* email, a line typed at a prompt) is a sequence of one-character         *)
(* strings.  mean_age is kept in hundredths (40.5 is 4050).                *)
(*                                                                         *)
(* Line 1 of the file, a stray file name, is not part of the program       *)
(* modelled here: the model starts at the imports.                         *)
(***************************************************************************)
EXTENDS Integers, Sequences, FiniteSets, TLC

VARIABLES pc, choice, patient_data, filtered_data, min_age, max_age,
          df, analysis, response, console, calls, files, exc

vars == <<pc, choice, patient_data, filtered_data, min_age, max_age,
          df, analysis, response, console, calls, files, exc>>

----------------------------------------------------------------------------
(* Bounds of the model. *)

\* Longest table the pure-function specification draws as an input.
MaxRows == 2

\* Ages, conditions and emails of the rows of those tables.
AgePool == {29, 30, 45, 46}
CondPool == {"Flu", "Fever"}
EmailPool == { <<"a", "@", "x">>, <<"b", "@", "y">>, <<"a", "b">> }

\* Range bounds handed to filter_by_age in the pure-function specification.
RangePool == {-1, 30, 45, 50}

\* Lines the user may type at the two age prompts.
InputLines ==
  { <<"3", "0">>, <<"4", "5">>, <<"2", "5">>, <<"6", "0">>, <<"7", "0">>,
    <<"-", "1">>, <<" ", "0">>, <<"a">>, <<>> }

----------------------------------------------------------------------------
(* DataFrames *)

AllCols == {"id", "email", "name", "age", "condition"}

\* pd.DataFrame(): no columns, no rows.
EmptyDF == [cols |-> {}, rows |-> <<>>]

\* DataFrame.empty: either axis has length 0.
IsEmpty(d) == d.cols = {} \/ Len(d.rows) = 0

NoSummary == [total_patients |-> 0, unique_domains |-> 0,
              condition_counts |-> <<>>, mean_age |-> 0]

----------------------------------------------------------------------------
(* fetch_and_clean_data *)

custom_names ==
  << "Amani Mwangi", "Neema Hassan", "Juma Odhiambo", "Zawadi Nyerere",
     "Baraka Kimani", "Fatuma Ali", "Hassan Abdallah",
     "Rehema Mussa", "Joseph Kibet", "Salma Suleiman" >>

synthetic_ages == <<25, 34, 45, 52, 29, 41, 38, 60, 33, 48>>

synthetic_conditions ==
  << "Flu", "Hypertension", "Diabetes", "Fever",
     "Flu", "Hypertension", "Diabetes", "Hypertension",
     "Fever", "Flu" >>

\* str.lower() on one character.
LowerChar(c) ==
  CASE c = "A" -> "a"
    [] c = "B" -> "b"
    [] c = "X" -> "x"
    [] c = "Y" -> "y"
    [] OTHER -> c

\* str.lower() on a string.
Lower(s) == [i \in 1..Len(s) |-> LowerChar(s[i])]

\* A response body: a JSON array of n objects; object i has id i and, when
\* has_email, the email emails[i].
Body(n, has_email, emails) ==
  [n |-> n, has_email |-> has_email, emails |-> emails]

MixedEmails == [i \in 1..11 |-> IF i % 2 = 1 THEN <<"A", "@", "X">> ELSE <<"b", "@", "y">>]
SameEmails == [i \in 1..11 |-> IF i % 3 = 0 THEN <<"a">> ELSE <<"a", "@", "x">>]
NoAtEmails == [i \in 1..11 |-> <<"a", "b">>]

\* What requests.get does: it raises, or it answers with a JSON array.
Responses ==
  { [kind |-> k, body |-> Body(0, FALSE, MixedEmails)] :
      k \in {"ConnectionError", "Timeout", "HTTPError", "JSONDecodeError"} }
  \cup
  { [kind |-> "ok", body |-> b] :
      b \in { Body(10, TRUE, MixedEmails), Body(10, TRUE, SameEmails),
              Body(10, TRUE, NoAtEmails), Body(10, FALSE, MixedEmails),
              Body(9, TRUE, MixedEmails), Body(11, TRUE, MixedEmails),
              Body(0, FALSE, MixedEmails) } }

\* Mutant of IsRequestException: the handler catches connection failures only.
OnlyConnectionErrors(k) == k \in {"ConnectionError", "Timeout"}

\* The exceptions of requests.exceptions.RequestException raised by lines 18-20.
IsRequestException(k) ==
  k \in {"ConnectionError", "Timeout", "HTTPError", "JSONDecodeError"}

\* The table of lines 22-44 for a body of 10 objects with an email field.
Enriched(body) ==
  [cols |-> AllCols,
   rows |-> [i \in 1..Len(custom_names) |->
               [id |-> i,
                email |-> Lower(body.emails[i]),
                name |-> custom_names[i],
                age |-> synthetic_ages[i],
                condition |-> synthetic_conditions[i]]]]

\* fetch_and_clean_data(url): the exception that leaves it ("none" when it
\* returns), the table it returns and what it prints.  An exception of lines
\* 18-20 is caught when it is a RequestException.  Line 30 raises ValueError
\* when the body has rows but not as many as custom_names; on a body without
\* rows it gives the table ten rows, and line 32 then finds no email column
\* (KeyError), as it does for a body of ten objects without that field.
fetch_and_clean_data(resp) ==
  IF resp.kind # "ok"
  THEN IF IsRequestException(resp.kind)
       THEN [exc |-> "none", df |-> EmptyDF, console |-> <<"Error fetching data">>]
       ELSE [exc |-> resp.kind, df |-> EmptyDF, console |-> <<>>]
  ELSE IF resp.body.n # Len(custom_names) /\ resp.body.n # 0
  THEN [exc |-> "ValueError", df |-> EmptyDF, console |-> <<>>]
  ELSE IF resp.body.n = 0 \/ ~resp.body.has_email
  THEN [exc |-> "KeyError", df |-> EmptyDF, console |-> <<>>]
  ELSE [exc |-> "none", df |-> Enriched(resp.body), console |-> <<>>]

----------------------------------------------------------------------------
(* filter_by_age *)

\* Mutant of AgeMask: both comparisons strict.
AgeMaskExclusive(rows, lo, hi) ==
  [i \in 1..Len(rows) |-> (rows[i].age > lo) /\ (rows[i].age < hi)]

\* The boolean mask (df["age"] >= min_age) & (df["age"] <= max_age).
AgeMask(rows, lo, hi) ==
  [i \in 1..Len(rows) |-> (rows[i].age >= lo) /\ (rows[i].age <= hi)]

\* df[mask]: the rows whose mask entry is true, in the order of the table.
RECURSIVE BoolIndex(_, _, _)
BoolIndex(rows, mask, i) ==
  IF i > Len(rows) THEN <<>>
  ELSE (IF mask[i] THEN <<rows[i]>> ELSE <<>>) \o BoolIndex(rows, mask, i + 1)

\* filter_by_age(df, min_age, max_age): the table it returns and what it prints.
filter_by_age(d, lo, hi) ==
  IF "age" \notin d.cols
  THEN [df |-> EmptyDF, console |-> <<"Age column not found.">>]
  ELSE [df |-> [cols |-> d.cols, rows |-> BoolIndex(d.rows, AgeMask(d.rows, lo, hi), 1)],
        console |-> <<>>]

----------------------------------------------------------------------------
(* analyze_data *)

\* Index of the first "@" of s from position i on; 0 when there is none.
RECURSIVE FindAt(_, _)
FindAt(s, i) ==
  IF i > Len(s) THEN 0
  ELSE IF s[i] = "@" THEN i
  ELSE FindAt(s, i + 1)

HasAt(s) == FindAt(s, 1) # 0

\* Column 1 of str.split("@", expand=True) for an email with an "@": the
\* text between its first "@" and its second one (or its end).
SplitColumn1(s) ==
  LET a == FindAt(s, 1)
      b == FindAt(s, a + 1)
  IN  SubSeq(s, a + 1, IF b = 0 THEN Len(s) ELSE b - 1)

\* nunique() of column 1: rows without an "@" hold None there and are not
\* counted.
NUnique(rows) ==
  Cardinality({ SplitColumn1(rows[i].email) :
                  i \in { j \in 1..Len(rows) : HasAt(rows[j].email) } })

\* value_counts().to_dict(): each condition that occurs, with its row count.
ValueCounts(rows) ==
  [c \in { rows[i].condition : i \in 1..Len(rows) } |->
     Cardinality({ i \in 1..Len(rows) : rows[i].condition = c })]

RECURSIVE SumAges(_, _)
SumAges(rows, i) ==
  IF i > Len(rows) THEN 0 ELSE rows[i].age + SumAges(rows, i + 1)

\* Mutant of RoundedMean: floor division of the sum by the row count.
FloorDivMean(sum, n) == (sum \div n) * 100

\* round(sum / n, 2) in hundredths: the nearest hundredth, an exact tie going
\* to the even one.
RoundedMean(sum, n) ==
  LET q == (sum * 100) \div n
      r == (sum * 100) % n
  IN  IF 2 * r < n THEN q
      ELSE IF 2 * r > n THEN q + 1
      ELSE IF q % 2 = 0 THEN q ELSE q + 1

\* Mutant of total_patients: the length of the column axis.
CountColumns(d) == Cardinality(d.cols)

\* Line 74: len(df).
total_patients(d) == Len(d.rows)

\* analyze_data(df): the exception that leaves it ("none" when it returns)
\* and the summary it returns.  When no email of the table holds an "@",
\* split(expand=True) yields the single column 0 and [1] raises KeyError.
analyze_data(d) ==
  IF IsEmpty(d)
  THEN [exc |-> "none", summary |-> NoSummary]
  ELSE IF ~(\E i \in 1..Len(d.rows) : HasAt(d.rows[i].email))
  THEN [exc |-> "KeyError", summary |-> NoSummary]
  ELSE [exc |-> "none",
        summary |-> [total_patients |-> total_patients(d),
                     unique_domains |-> NUnique(d.rows),
                     condition_counts |-> ValueCounts(d.rows),
                     mean_age |-> RoundedMean(SumAges(d.rows, 1), Len(d.rows))]]

----------------------------------------------------------------------------
(* visualize_data, save_analysis *)

\* The module binds matplotlib.pyplot to the name plt25 (line 5).
PyplotName == "plt25"

\* visualize_data(analysis, df, filtered): with no condition counts it prints
\* and returns; otherwise its first statement reads the name plt, and the
\* charts are drawn only if that is the name pyplot is bound to.
visualize_data(a, d, filtered) ==
  IF DOMAIN a.condition_counts = {}
  THEN [exc |-> "none", files |-> {}, console |-> <<"No data to visualize.">>]
  ELSE IF PyplotName # "plt"
  THEN [exc |-> "NameError", files |-> {}, console |-> <<>>]
  ELSE [exc |-> "none",
        files |-> {"conditions_plot.png", "conditions_pie.png",
                   IF filtered THEN "filtered_age_distribution.png"
                               ELSE "age_distribution.png"},
        console |-> <<>>]

\* save_analysis(analysis, filename): the file it writes, or the message it
\* prints when open() or write() raises IOError.
save_analysis(a, filename, io_ok) ==
  IF io_ok THEN [files |-> {filename}, console |-> <<>>]
  ELSE [files |-> {}, console |-> <<"File error">>]

----------------------------------------------------------------------------
(* get_age_range *)

Digits == <<"0", "1", "2", "3", "4", "5", "6", "7", "8", "9">>

IsDigit(c) == \E k \in 1..Len(Digits) : Digits[k] = c

DigitValue(c) == (CHOOSE k \in 1..Len(Digits) : Digits[k] = c) - 1

\* s without its leading and trailing blanks.
RECURSIVE Strip(_)
Strip(s) ==
  IF s = <<>> THEN s
  ELSE IF Head(s) = " " THEN Strip(Tail(s))
  ELSE IF s[Len(s)] = " " THEN Strip(SubSeq(s, 1, Len(s) - 1))
  ELSE s

RECURSIVE DigitsValue(_, _)
DigitsValue(s, acc) ==
  IF s = <<>> THEN acc
  ELSE DigitsValue(Tail(s), acc * Len(Digits) + DigitValue(Head(s)))

\* int(line): blanks around, an optional sign, then one or more digits;
\* anything else raises ValueError.
ParseInt(line) ==
  LET t == Strip(line)
      signed == t # <<>> /\ Head(t) \in {"-", "+"}
      body == IF signed THEN Tail(t) ELSE t
  IN  IF body = <<>> \/ ~(\A i \in 1..Len(body) : IsDigit(body[i]))
      THEN [ok |-> FALSE, val |-> 0]
      ELSE [ok |-> TRUE,
            val |-> IF signed /\ Head(t) = "-" THEN 0 - DigitsValue(body, 0)
                    ELSE DigitsValue(body, 0)]

\* Mutant of InvalidRange: a negative minimum is let through.
InvertedOnly(lo, hi) == hi < lo

\* The test of line 158 that sends the prompt round again.
InvalidRange(lo, hi) == lo < 0 \/ hi < lo

----------------------------------------------------------------------------
(* main: the menu loop.  pc is "menu" at the choice prompt, "ask_min" and   *)
(* "ask_max" at the two prompts of get_age_range, "exited" after choice 4   *)
(* and "crashed" once an exception has left main.                           *)

Init ==
  /\ pc = "menu"
  /\ choice = ""
  /\ patient_data = EmptyDF
  /\ filtered_data = EmptyDF
  /\ min_age = 0
  /\ max_age = 0
  /\ df = EmptyDF
  /\ analysis = NoSummary
  /\ response = [kind |-> "none", body |-> Body(0, FALSE, MixedEmails)]
  /\ console = <<"Welcome to the Sunrise Hospital EMR System">>
  /\ calls = <<>>
  /\ files = {}
  /\ exc = "none"

\* Mutant of FilteredAfterLoad: the load leaves the filtered table as it was.
KeepFiltered == filtered_data

\* Line 188: the filtered table after a load.
FilteredAfterLoad == EmptyDF

\* Mutant of NeedsFetch: the guard is dropped.
NeverNeedsFetch(d) == FALSE

\* Lines 195 and 203: the test that turns the filter and report commands away.
NeedsFetch(d) == IsEmpty(d)

\* Mutant of FilterSource: the filter narrows the previous filter result.
FilterPrevious == IF IsEmpty(filtered_data) THEN patient_data ELSE filtered_data

\* Line 199: the table the filter command filters.
FilterSource == patient_data

\* Line 206 and the tests of lines 208 and 209.
UseFiltered == ~IsEmpty(filtered_data)

\* Choice "1", lines 186-192.
Load(resp) ==
  /\ pc = "menu"
  /\ choice' = "1"
  /\ response' = resp
  /\ calls' = <<"fetch_and_clean_data">>
  /\ LET r == fetch_and_clean_data(resp)
     IN  IF r.exc # "none"
         THEN /\ pc' = "crashed"
              /\ exc' = r.exc
              /\ console' = r.console
              /\ UNCHANGED <<patient_data, filtered_data>>
         ELSE /\ patient_data' = r.df
              /\ filtered_data' = FilteredAfterLoad
              /\ console' = r.console \o
                   << IF ~IsEmpty(r.df) THEN "Patient data loaded successfully."
                      ELSE "Failed to load patient data." >>
              /\ UNCHANGED <<pc, exc>>
  /\ UNCHANGED <<min_age, max_age, df, analysis, files>>

\* Choice "2", lines 194-198, up to the first prompt of get_age_range.
FilterCmd ==
  /\ pc = "menu"
  /\ choice' = "2"
  /\ IF NeedsFetch(patient_data)
     THEN /\ console' = <<"Fetch data first.">>
          /\ calls' = <<>>
          /\ UNCHANGED pc
     ELSE /\ console' = <<>>
          /\ calls' = <<"get_age_range">>
          /\ pc' = "ask_min"
  /\ UNCHANGED <<patient_data, filtered_data, min_age, max_age, df, analysis,
                 response, files, exc>>

\* Line 156: the minimum-age prompt.
AskMin(line) ==
  /\ pc = "ask_min"
  /\ LET p == ParseInt(line)
     IN  IF ~p.ok
         THEN /\ console' = <<"Please enter valid numbers.">>
              /\ UNCHANGED <<pc, min_age>>
         ELSE /\ min_age' = p.val
              /\ pc' = "ask_max"
              /\ console' = <<>>
  /\ UNCHANGED <<choice, patient_data, filtered_data, max_age, df, analysis,
                 response, calls, files, exc>>

\* Lines 157-163, then lines 199-200 once get_age_range has returned.
AskMax(line) ==
  /\ pc = "ask_max"
  /\ LET p == ParseInt(line)
     IN  IF ~p.ok
         THEN /\ console' = <<"Please enter valid numbers.">>
              /\ pc' = "ask_min"
              /\ UNCHANGED <<max_age, filtered_data, calls, exc>>
         ELSE IF InvalidRange(min_age, p.val)
         THEN /\ max_age' = p.val
              /\ console' = <<"Invalid age range. Try again.">>
              /\ pc' = "ask_min"
              /\ UNCHANGED <<filtered_data, calls, exc>>
         ELSE LET r == filter_by_age(FilterSource, min_age, p.val)
              IN  /\ max_age' = p.val
                  /\ filtered_data' = r.df
                  /\ calls' = calls \o <<"filter_by_age">>
                  /\ IF {"name", "age", "condition"} \subseteq r.df.cols
                     THEN /\ console' = r.console \o <<"name age condition">>
                          /\ pc' = "menu"
                          /\ UNCHANGED exc
                     ELSE /\ console' = r.console
                          /\ pc' = "crashed"
                          /\ exc' = "KeyError"
  /\ UNCHANGED <<choice, patient_data, min_age, df, analysis, response, files>>

\* Choice "3", lines 202-218.  io_ok: whether the report file can be written.
ReportCmd(io_ok) ==
  /\ pc = "menu"
  /\ choice' = "3"
  /\ IF NeedsFetch(patient_data)
     THEN /\ console' = <<"Fetch data first.">>
          /\ calls' = <<>>
          /\ UNCHANGED <<pc, df, analysis, files, exc>>
     ELSE LET d == IF UseFiltered THEN filtered_data ELSE patient_data
              a == analyze_data(d)
              v == visualize_data(a.summary, d, UseFiltered)
              output_file == IF UseFiltered THEN "filtered_analysis_summary.txt"
                             ELSE "analysis_summary.txt"
              w == save_analysis(a.summary, output_file, io_ok)
          IN  /\ df' = d
              /\ IF a.exc # "none"
                 THEN /\ calls' = <<"analyze_data">>
                      /\ pc' = "crashed"
                      /\ exc' = a.exc
                      /\ console' = <<>>
                      /\ UNCHANGED <<analysis, files>>
                 ELSE IF v.exc # "none"
                 THEN /\ calls' = <<"analyze_data", "visualize_data">>
                      /\ analysis' = a.summary
                      /\ pc' = "crashed"
                      /\ exc' = v.exc
                      /\ console' = v.console
                      /\ files' = files \cup v.files
                 ELSE /\ calls' = <<"analyze_data", "visualize_data", "save_analysis">>
                      /\ analysis' = a.summary
                      /\ files' = files \cup v.files \cup w.files
                      /\ console' = v.console \o w.console \o <<"Analysis Summary">>
                      /\ UNCHANGED <<pc, exc>>
  /\ UNCHANGED <<patient_data, filtered_data, min_age, max_age, response>>

\* Choice "4", lines 220-222.
ExitCmd ==
  /\ pc = "menu"
  /\ choice' = "4"
  /\ pc' = "exited"
  /\ console' = <<"Exiting EMR System. Goodbye!">>
  /\ calls' = <<>>
  /\ UNCHANGED <<patient_data, filtered_data, min_age, max_age, df, analysis,
                 response, files, exc>>

\* Any other line at the choice prompt, lines 223-224.
OtherChoices == {"", "5", "x"}

InvalidCmd(c) ==
  /\ pc = "menu"
  /\ choice' = c
  /\ console' = <<"Invalid choice. Try again.">>
  /\ calls' = <<>>
  /\ UNCHANGED <<pc, patient_data, filtered_data, min_age, max_age, df, analysis,
                 response, files, exc>>

Next ==
  \/ \E resp \in Responses : Load(resp)
  \/ FilterCmd
  \/ \E line \in InputLines : AskMin(line)
  \/ \E line \in InputLines : AskMax(line)
  \/ \E io_ok \in BOOLEAN : ReportCmd(io_ok)
  \/ ExitCmd
  \/ \E c \in OtherChoices : InvalidCmd(c)

Spec == Init /\ [][Next]_vars

----------------------------------------------------------------------------
(* The functions on their own: filter_by_age, analyze_data and              *)
(* fetch_and_clean_data applied to tables, ranges and responses drawn from  *)
(* the pools.  pc is "input" before a call, then "filtered", "fetched",     *)
(* "analyzed" (analyze_data returned) or "raised" (an exception left the    *)
(* function).                                                               *)

\* The table with all five columns whose row i carries f[i].
TableOf(f) ==
  [cols |-> AllCols,
   rows |-> [i \in 1..Len(f) |->
               [id |-> i, email |-> f[i].email, name |-> custom_names[i],
                age |-> f[i].age, condition |-> f[i].condition]]]

\* The tables of at most MaxRows rows over the pools, the table without
\* columns, and the enriched tables of the 10-row bodies.
InputTables ==
  { TableOf(f) :
      f \in UNION { [1..n -> [email : EmailPool, age : AgePool, condition : CondPool]] :
                      n \in 0..MaxRows } }
  \cup {EmptyDF}
  \cup { Enriched(r.body) : r \in { x \in Responses : x.kind = "ok" /\ x.body.n = 10 } }

PureInit ==
  /\ pc = "input"
  /\ choice = ""
  /\ patient_data \in InputTables
  /\ filtered_data = EmptyDF
  /\ min_age = 0
  /\ max_age = 0
  /\ df = EmptyDF
  /\ analysis = NoSummary
  /\ response = [kind |-> "none", body |-> Body(0, FALSE, MixedEmails)]
  /\ console = <<>>
  /\ calls = <<>>
  /\ files = {}
  /\ exc = "none"

\* filter_by_age(patient_data, lo, hi).
ApplyFilter(lo, hi) ==
  /\ pc = "input"
  /\ LET r == filter_by_age(patient_data, lo, hi)
     IN  /\ filtered_data' = r.df
         /\ console' = r.console
  /\ min_age' = lo
  /\ max_age' = hi
  /\ calls' = <<"filter_by_age">>
  /\ pc' = "filtered"
  /\ UNCHANGED <<choice, patient_data, df, analysis, response, files, exc>>

\* fetch_and_clean_data(url) on the response resp.
ApplyFetch(resp) ==
  /\ pc = "input"
  /\ patient_data = EmptyDF
  /\ LET r == fetch_and_clean_data(resp)
     IN  /\ patient_data' = r.df
         /\ console' = r.console
         /\ exc' = r.exc
         /\ pc' = IF r.exc = "none" THEN "fetched" ELSE "raised"
  /\ response' = resp
  /\ calls' = <<"fetch_and_clean_data">>
  /\ UNCHANGED <<choice, filtered_data, min_age, max_age, df, analysis, files>>

\* analyze_data on the input table, on the table filter_by_age returned or on
\* the table fetch_and_clean_data returned.
ApplyAnalyze ==
  /\ pc \in {"input", "filtered", "fetched"}
  /\ LET d == IF pc = "filtered" THEN filtered_data ELSE patient_data
         a == analyze_data(d)
     IN  /\ df' = d
         /\ exc' = a.exc
         /\ IF a.exc = "none"
            THEN analysis' = a.summary /\ pc' = "analyzed"
            ELSE pc' = "raised" /\ UNCHANGED analysis
  /\ calls' = calls \o <<"analyze_data">>
  /\ UNCHANGED <<choice, patient_data, filtered_data, min_age, max_age,
                 response, console, files>>

PureNext ==
  \/ \E lo \in RangePool, hi \in RangePool : ApplyFilter(lo, hi)
  \/ \E resp \in Responses : ApplyFetch(resp)
  \/ ApplyAnalyze

PureSpec == PureInit /\ [][PureNext]_vars

----------------------------------------------------------------------------
(* Properties *)

\* Function f was invoked by the last command.
Called(f) == \E i \in 1..Len(calls) : calls[i] = f

\* The positions of the rows whose age lies in [lo, hi].
Kept(rows, lo, hi) ==
  { i \in 1..Len(rows) : lo <= rows[i].age /\ rows[i].age <= hi }

\* The k-th smallest member of the set of integers S.
Nth(S, k) == CHOOSE x \in S : Cardinality({ y \in S : y < x }) = k - 1

\* out holds exactly the rows of `rows` with age in [lo, hi], in their order.
ExactlyTheRowsInRange(out, rows, lo, hi) ==
  /\ Len(out) = Cardinality(Kept(rows, lo, hi))
  /\ \A k \in 1..Len(out) : out[k] = rows[Nth(Kept(rows, lo, hi), k)]

\* a is a sub-sequence of b: the rows of a occur in b in the same order.
RECURSIVE IsSubSeqOf(_, _)
IsSubSeqOf(a, b) ==
  IF a = <<>> THEN TRUE
  ELSE IF b = <<>> THEN FALSE
  ELSE IF Head(a) = Head(b) THEN IsSubSeqOf(Tail(a), Tail(b))
  ELSE IsSubSeqOf(a, Tail(b))

Ages(rows) == [i \in 1..Len(rows) |-> rows[i].age]
Conditions(rows) == [i \in 1..Len(rows) |-> rows[i].condition]
Ids(rows) == [i \in 1..Len(rows) |-> rows[i].id]

RECURSIVE SumCounts(_, _)
SumCounts(cc, S) ==
  IF S = {} THEN 0
  ELSE LET c == CHOOSE x \in S : TRUE IN cc[c] + SumCounts(cc, S \ {c})

FetchFailures == {"ConnectionError", "Timeout", "HTTPError", "JSONDecodeError"}

LoopEnded == pc \in {"exited", "crashed"}

\* C1: no failure ends the main loop; the loop ends only when the user
\* chooses exit (choice 4).
C1_OnlyExitEndsLoop == LoopEnded => (choice = "4" /\ exc = "none")

\* C2: whenever the menu is back after a load, "current" is the table the
\* fetch returned and "filtered" is empty, and a report issued right after a
\* load summarizes "current".
C2_LoadReplacesAndClears ==
  /\ [](pc = "menu" /\ choice = "1" =>
          /\ patient_data = fetch_and_clean_data(response).df
          /\ IsEmpty(filtered_data))
  /\ [][(pc = "menu" /\ choice = "1" /\ choice' = "3" /\ ~IsEmpty(patient_data))
          => df' = patient_data]_vars

\* A load has succeeded after a filter with range [30,45] had been made.
C2_Witness ==
  /\ pc = "menu" /\ choice = "1"
  /\ ~IsEmpty(patient_data)
  /\ min_age = 30 /\ max_age = 45
  /\ IsEmpty(filtered_data)

\* C3: with "current" empty, the filter and the report command print the
\* guidance message and do nothing else: no function is invoked, no prompt is
\* entered, no artifact is written and both tables stay as they are.
C3_GuardedCommands ==
  [][(pc = "menu" /\ IsEmpty(patient_data) /\ choice' \in {"2", "3"}) =>
        /\ console' = <<"Fetch data first.">>
        /\ calls' = <<>>
        /\ pc' = "menu"
        /\ UNCHANGED <<patient_data, filtered_data, files, df, analysis,
                       min_age, max_age, exc>>]_vars

\* The guidance message was printed after a load that failed.
C3_Witness ==
  /\ choice \in {"2", "3"}
  /\ console = <<"Fetch data first.">>
  /\ response.kind = "Timeout"
  /\ IsEmpty(patient_data)

\* C4: a report on a non-empty "current" summarizes "filtered" when that is
\* non-empty and "current" otherwise, and writes the report and the histogram
\* under the filtered names exactly in the first case.
C4_ReportArtifacts ==
  (choice = "3" /\ calls # <<>>) =>
     /\ df = (IF ~IsEmpty(filtered_data) THEN filtered_data ELSE patient_data)
     /\ (IF ~IsEmpty(filtered_data)
         THEN {"filtered_analysis_summary.txt", "filtered_age_distribution.png"}
         ELSE {"analysis_summary.txt", "age_distribution.png"}) \subseteq files

\* C5 as the claim states it: on a table with an age column filter_by_age
\* returns exactly the rows with min <= age <= max, in their order, and on the
\* synthetic ages with range [30,45] these are the rows at (0-based) positions
\* 1, 2, 5, 6, which carry the ids 2, 3, 6, 7 and the ages 34, 45, 41, 38.
C5_AsClaimed ==
  (Called("filter_by_age") /\ "age" \in patient_data.cols) =>
     /\ filtered_data.cols = patient_data.cols
     /\ ExactlyTheRowsInRange(filtered_data.rows, patient_data.rows, min_age, max_age)
     /\ (Ages(patient_data.rows) = synthetic_ages /\ min_age = 30 /\ max_age = 45)
          => /\ Ids(filtered_data.rows) = <<2, 3, 6, 7>>
             /\ Ages(filtered_data.rows) = <<34, 45, 41, 38>>

\* C5, amended: on a table with an age column filter_by_age returns exactly
\* the rows with min <= age <= max, in their order; on the synthetic ages with
\* range [30,45] these are the rows at (0-based) positions 1, 2, 5, 6, 8, which
\* carry the ids 2, 3, 6, 7, 9 and the ages 34, 45, 41, 38, 33.
C5_FilterExact ==
  (Called("filter_by_age") /\ "age" \in patient_data.cols) =>
     /\ filtered_data.cols = patient_data.cols
     /\ ExactlyTheRowsInRange(filtered_data.rows, patient_data.rows, min_age, max_age)
     /\ (Ages(patient_data.rows) = synthetic_ages /\ min_age = 30 /\ max_age = 45)
          => /\ Ids(filtered_data.rows) = <<2, 3, 6, 7, 9>>
             /\ Ages(filtered_data.rows) = <<34, 45, 41, 38, 33>>

\* The synthetic table was filtered with [30,45].
C5_Witness ==
  /\ pc = "filtered"
  /\ Ages(patient_data.rows) = synthetic_ages
  /\ min_age = 30 /\ max_age = 45
  /\ Len(filtered_data.rows) = 5

\* C6: when the request fails, fetch_and_clean_data returns the empty table
\* without raising, and the summary of that table is the all-zero summary.
C6_FailedFetchIsEmpty ==
  (Called("fetch_and_clean_data") /\ response.kind \in FetchFailures) =>
     /\ pc # "raised"
     /\ exc = "none"
     /\ patient_data = EmptyDF
     /\ Called("analyze_data") => (pc = "analyzed" /\ analysis = NoSummary)

\* The table of a fetch that met a non-2xx status was summarized.
C6_Witness ==
  /\ pc = "analyzed"
  /\ Called("fetch_and_clean_data")
  /\ response.kind = "HTTPError"
  /\ analysis.total_patients = 0

\* C7: the summary analyze_data returns has total_patients equal to the row
\* count of its table; for a table without rows it is the all-zero summary.
C7_TotalIsRowCount ==
  pc = "analyzed" =>
     /\ analysis.total_patients = Len(df.rows)
     /\ Len(df.rows) = 0 => analysis = NoSummary

\* A table that filter_by_age narrowed from two rows to one was summarized.
C7_Witness ==
  /\ pc = "analyzed"
  /\ Called("filter_by_age")
  /\ Len(patient_data.rows) = 2
  /\ Len(df.rows) = 1
  /\ analysis.total_patients = 1

\* C8: in a summary, condition_counts maps each condition to the number of
\* rows carrying it (the counts sum to the row count) and mean_age is the mean
\* of the ages to the nearest hundredth; for the enriched 10-row table they
\* are Flu 3, Hypertension 3, Diabetes 2, Fever 2 and 40.5.
C8_EnrichedSummary ==
  (pc = "analyzed" /\ Len(df.rows) > 0) =>
     LET rows == df.rows
         n == Len(rows)
         cc == analysis.condition_counts
         d == 100 * SumAges(rows, 1) - analysis.mean_age * n
     IN  /\ DOMAIN cc = { rows[i].condition : i \in 1..n }
         /\ \A c \in DOMAIN cc : cc[c] = Cardinality({ i \in 1..n : rows[i].condition = c })
         /\ SumCounts(cc, DOMAIN cc) = n
         /\ 2 * d <= n /\ 2 * (0 - d) <= n
         /\ (Ages(rows) = synthetic_ages /\ Conditions(rows) = synthetic_conditions)
              => /\ analysis.mean_age = 4050
                 /\ cc = [c \in {"Flu", "Hypertension", "Diabetes", "Fever"} |->
                            IF c \in {"Flu", "Hypertension"} THEN 3 ELSE 2]

\* The enriched 10-row table was summarized.
C8_Witness ==
  /\ pc = "analyzed"
  /\ Ages(df.rows) = synthetic_ages
  /\ Conditions(df.rows) = synthetic_conditions
  /\ analysis.mean_age = 4050

\* C9: the filter command hands filter_by_age a range with 0 <= min <= max,
\* and the age prompt is left only with such a pair.
C9_FilterRangeValid ==
  /\ [](Called("filter_by_age") => (0 <= min_age /\ min_age <= max_age))
  /\ [][(pc \in {"ask_min", "ask_max"} /\ pc' \notin {"ask_min", "ask_max"}) =>
          /\ \E i \in 1..Len(calls') : calls'[i] = "filter_by_age"
          /\ 0 <= min_age' /\ min_age' <= max_age']_vars

\* get_age_range returned the pair (30, 45) and the filter ran with it.
C9_Witness ==
  /\ pc = "menu"
  /\ Called("filter_by_age")
  /\ min_age = 30 /\ max_age = 45
  /\ Len(filtered_data.rows) = 5

\* C10: "filtered" is always a sub-sequence of "current", and a filter leaves
\* "current" as it is and returns the rows of the whole "current" table that
\* lie in the range.
C10_FilteredWithinCurrent ==
  /\ [](IsSubSeqOf(filtered_data.rows, patient_data.rows))
  /\ [][(pc = "ask_max" /\ pc' = "menu") =>
          /\ patient_data' = patient_data
          /\ ExactlyTheRowsInRange(filtered_data'.rows, patient_data.rows,
                                   min_age', max_age')]_vars

\* A filter with the range [25,60] returned all ten rows of "current".
C10_Witness ==
  /\ pc = "menu"
  /\ Called("filter_by_age")
  /\ min_age = 25 /\ max_age = 60
  /\ Len(patient_data.rows) = 10
  /\ filtered_data.rows = patient_data.rows

====
